---- MODULE Spec2Model ----
(***************************************************************************)
(* ISS satellite tracker backend: the element-set cache and fetcher        *)
(* (tle_fetcher.fetch_tle), the WebSocket streaming loop                   *)
(* (main.websocket_position) and the orbit trail sampler                   *)
(* (propagator.compute_orbit_trail).                                       *)
(*                                                                         *)
(* Text is modelled as sequences of one-character strings, a response body *)
(* as the sequence of its raw lines.  Time is in whole seconds.            *)
(***************************************************************************)
EXTENDS Integers, Sequences, FiniteSets, TLC

\* ------------------------------------------------------------------ bounds
\* The wall clock runs up to MaxTtlPeriods * CACHE_TTL_SECONDS.
MaxTtlPeriods == 2

\* The WebSocket subscribers.
Subs == {"s1", "s2"}

\* compute_orbit_trail is called with windows of 0..MaxMinutes minutes,
MaxMinutes == 2
\* centred on instants 0..MaxCenter,
MaxCenter == 1
\* and at most MaxFailures of its samples fail to propagate.
MaxFailures == 1

\* ------------------------------------------------------- program constants
CACHE_TTL_SECONDS == 3600

\* ------------------------------------------------------------ text helpers
RECURSIVE LStrip(_)
LStrip(l) == IF l # <<>> /\ Head(l) = " " THEN LStrip(Tail(l)) ELSE l

RECURSIVE RStrip(_)
RStrip(l) == IF l # <<>> /\ l[Len(l)] = " " THEN RStrip(SubSeq(l, 1, Len(l) - 1)) ELSE l

\* str.strip()
Strip(l) == RStrip(LStrip(l))

\* str.startswith(p)
StartsWith(l, p) == Len(l) >= Len(p) /\ SubSeq(l, 1, Len(p)) = p

\* [l.strip() for l in response.text.strip().splitlines() if l.strip()]
RECURSIVE NonBlankLines(_)
NonBlankLines(text) ==
    IF text = <<>> THEN <<>>
    ELSE IF Strip(Head(text)) = <<>> THEN NonBlankLines(Tail(text))
    ELSE <<Strip(Head(text))>> \o NonBlankLines(Tail(text))

\* ------------------------------------------------- what the provider sends
NameA == <<"I", "S", "S">>
Line1A == <<"1", " ", "a">>
Line2A == <<"2", " ", "a">>
NameB == <<"Z">>
Line1B == <<"1", " ", "b">>
Line2B == <<"2", " ", "b">>

TextA == <<NameA, Line1A, Line2A>>
TextB == <<NameB, Line1B, Line2B, <<"x">>>>
TextAPadded == << <<>>, <<" ">> \o NameA \o <<" ">>, <<" ">>, Line1A, Line2A \o <<" ">>, <<>> >>
TextShort == <<NameA, <<" ">>, Line1A>>
TextBadLine1 == <<NameA, <<"1", "a">>, Line2A>>
TextBadLine2 == <<NameA, Line1A, <<"3", " ", "a">>>>

Http(status, text) == [kind |-> "http", status |-> status, text |-> text]
NoResp == [kind |-> "none", status |-> 0, text |-> <<>>]
\* httpx.get raising (timeout after 10 s, connection error)
Timeout == [kind |-> "timeout", status |-> 0, text |-> <<>>]

Responses ==
    { Http(200, TextA), Http(200, TextB), Http(200, TextAPadded),
      Http(200, TextShort), Http(200, TextBadLine1), Http(200, TextBadLine2),
      Http(503, TextA), Timeout }

\* response.raise_for_status()
RaisesForStatus(r) == r.status \notin 200..299

\* httpx.get(...) or raise_for_status() raised
NetworkFailedIgnoresStatus(r) == r.kind # "http"
NetworkFailed(r) == r.kind # "http" \/ RaisesForStatus(r)

\* ------------------------------------------------------------------- state
VARIABLES
    clock,      \* time.time()
    cache,      \* tle_fetcher._cache: a dict, keys timestamp/name/line1/line2
    lastWrite,  \* history: the entry the last completed refresh stored
    pc,         \* per subscriber: position in websocket_position / fetch_tle
    conn,       \* per subscriber: the transport, "open" or "closed"
    now_l,      \* per subscriber: fetch_tle's local now
    resp,       \* per subscriber: fetch_tle's local response
    lines,      \* per subscriber: fetch_tle's locals <<name, line1, line2>>
    ret,        \* per subscriber: how fetch_tle returned, and what
    work,       \* per subscriber: outcome of this tick's fetch + compute
    pushed,     \* per subscriber: payloads pushed in this tick
    payload,    \* per subscriber: the last payload pushed
    tpc,            \* compute_orbit_trail: position
    center_dt,      \* compute_orbit_trail: argument
    past_minutes,   \* compute_orbit_trail: argument
    future_minutes, \* compute_orbit_trail: argument
    step_seconds,   \* compute_orbit_trail: argument
    t,              \* compute_orbit_trail: the sample instant
    past_points,    \* compute_orbit_trail: points appended so far, by instant
    future_points,  \* compute_orbit_trail: points appended so far, by instant
    failed          \* history: the sample instants whose propagation raised

streamVars == <<clock, cache, lastWrite, pc, conn, now_l, resp, lines, ret, work, pushed, payload>>
trailVars == <<tpc, center_dt, past_minutes, future_minutes, step_seconds, t,
               past_points, future_points, failed>>
vars == <<streamVars, trailVars>>

Keys == {"timestamp", "name", "line1", "line2"}
EmptyDict == [k \in {} |-> 0]
KeyError == <<"KeyError">>

\* bool(_cache)
CacheExists == DOMAIN cache # {}

\* _cache[k]
Get(d, k) == IF k \in DOMAIN d THEN d[k] ELSE KeyError

\* _cache[k] = v
Put(d, k, v) == [x \in DOMAIN d \cup {k} |-> IF x = k THEN v ELSE d[x]]

\* _cache["name"], _cache["line1"], _cache["line2"]
CachedTriple == <<Get(cache, "name"), Get(cache, "line1"), Get(cache, "line2")>>

\* (now - _cache["timestamp"]) < CACHE_TTL_SECONDS
IsFreshShortTtl(now) == (now - Get(cache, "timestamp")) < 60
IsFresh(now) == (now - Get(cache, "timestamp")) < CACHE_TTL_SECONDS

NoRet == [via |-> "none", val |-> <<>>]
Returned(via, val) == [via |-> via, val |-> val]
\* raise RuntimeError("Could not fetch TLE and no cache available: ...")
Raised == [via |-> "raise", val |-> <<>>]

\* Positions at which a coroutine is suspended in an await (or not running).
Suspended == {"idle", "accept", "send_state", "send_err", "sleep", "done", "aborted"}

\* All handlers are `async def` and call fetch_tle / get_full_state without
\* awaiting: the event loop runs one coroutine at a time and switches only
\* at an await.
EventLoopThreaded(s) == TRUE
EventLoopFree(s) == \A o \in Subs \ {s} : pc[o] \in Suspended

\* --------------------------------------------------------------- fetch_tle
\* tle_fetcher.py:40-44: now = time.time(); a fresh cache entry is returned
\* at once, otherwise the call goes to the network.
FetchEntry(s) ==
    /\ pc[s] = "fetch"
    /\ EventLoopFree(s)
    /\ now_l' = [now_l EXCEPT ![s] = clock]
    /\ resp' = [resp EXCEPT ![s] = NoResp]
    /\ lines' = [lines EXCEPT ![s] = <<>>]
    /\ IF CacheExists /\ IsFresh(clock)
       THEN /\ ret' = [ret EXCEPT ![s] = Returned("hit", CachedTriple)]
            /\ pc' = [pc EXCEPT ![s] = "fetched"]
       ELSE /\ ret' = [ret EXCEPT ![s] = NoRet]
            /\ pc' = [pc EXCEPT ![s] = "net"]
    /\ UNCHANGED <<clock, cache, lastWrite, conn, work, pushed, payload, trailVars>>

\* tle_fetcher.py:48-49: the blocking httpx.get and raise_for_status.
NetGet(s) ==
    /\ pc[s] = "net"
    /\ EventLoopFree(s)
    /\ \E r \in Responses :
         /\ resp' = [resp EXCEPT ![s] = r]
         /\ pc' = [pc EXCEPT ![s] = IF NetworkFailed(r) THEN "except" ELSE "validate"]
    /\ UNCHANGED <<clock, cache, lastWrite, conn, now_l, lines, ret, work, pushed, payload, trailVars>>

\* tle_fetcher.py:52-53 and 60-61: the two checks that raise ValueError.
FailsValidation(text) ==
    LET ls == NonBlankLines(text) IN
    \/ Len(ls) < 3
    \/ ~StartsWith(ls[2], <<"1", " ">>)
    \/ ~StartsWith(ls[3], <<"2", " ">>)

\* tle_fetcher.py:55-57: name, line1, line2
ParsedTriple(text) == SubSeq(NonBlankLines(text), 1, 3)

\* tle_fetcher.py:50-61
Validate(s) ==
    /\ pc[s] = "validate"
    /\ EventLoopFree(s)
    /\ IF FailsValidation(resp[s].text)
       THEN /\ pc' = [pc EXCEPT ![s] = "except"]
            /\ UNCHANGED lines
       ELSE /\ pc' = [pc EXCEPT ![s] = "w_timestamp"]
            /\ lines' = [lines EXCEPT ![s] = ParsedTriple(resp[s].text)]
    /\ UNCHANGED <<clock, cache, lastWrite, conn, now_l, resp, ret, work, pushed, payload, trailVars>>

\* tle_fetcher.py:63
StoreTimestampWallClock(s) ==
    /\ pc[s] = "w_timestamp"
    /\ EventLoopFree(s)
    /\ cache' = Put(cache, "timestamp", clock)
    /\ pc' = [pc EXCEPT ![s] = "w_name"]
    /\ UNCHANGED <<clock, lastWrite, conn, now_l, resp, lines, ret, work, pushed, payload, trailVars>>

StoreTimestamp(s) ==
    /\ pc[s] = "w_timestamp"
    /\ EventLoopFree(s)
    /\ cache' = Put(cache, "timestamp", now_l[s])
    /\ pc' = [pc EXCEPT ![s] = "w_name"]
    /\ UNCHANGED <<clock, lastWrite, conn, now_l, resp, lines, ret, work, pushed, payload, trailVars>>

\* tle_fetcher.py:64
StoreName(s) ==
    /\ pc[s] = "w_name"
    /\ EventLoopFree(s)
    /\ cache' = Put(cache, "name", lines[s][1])
    /\ pc' = [pc EXCEPT ![s] = "w_line1"]
    /\ UNCHANGED <<clock, lastWrite, conn, now_l, resp, lines, ret, work, pushed, payload, trailVars>>

\* tle_fetcher.py:65
StoreLine1(s) ==
    /\ pc[s] = "w_line1"
    /\ EventLoopFree(s)
    /\ cache' = Put(cache, "line1", lines[s][2])
    /\ pc' = [pc EXCEPT ![s] = "w_line2"]
    /\ UNCHANGED <<clock, lastWrite, conn, now_l, resp, lines, ret, work, pushed, payload, trailVars>>

\* The entry a refresh stores: its own now and its own three lines.
Entry(now, triple) ==
    [k \in Keys |-> CASE k = "timestamp" -> now
                      [] k = "name" -> triple[1]
                      [] k = "line1" -> triple[2]
                      [] k = "line2" -> triple[3]]

\* tle_fetcher.py:66-68: the last store, then return name, line1, line2
StoreLine2(s) ==
    /\ pc[s] = "w_line2"
    /\ EventLoopFree(s)
    /\ cache' = Put(cache, "line2", lines[s][3])
    /\ lastWrite' = Entry(now_l[s], lines[s])
    /\ ret' = [ret EXCEPT ![s] = Returned("fresh", lines[s])]
    /\ pc' = [pc EXCEPT ![s] = "fetched"]
    /\ UNCHANGED <<clock, conn, now_l, resp, lines, work, pushed, payload, trailVars>>

\* tle_fetcher.py:70-75: except Exception: the stale entry if there is one,
\* else RuntimeError.
FallbackAlwaysRaise == Raised
Fallback == IF CacheExists THEN Returned("stale", CachedTriple) ELSE Raised

Except(s) ==
    /\ pc[s] = "except"
    /\ EventLoopFree(s)
    /\ ret' = [ret EXCEPT ![s] = Fallback]
    /\ pc' = [pc EXCEPT ![s] = "fetched"]
    /\ UNCHANGED <<clock, cache, lastWrite, conn, now_l, resp, lines, work, pushed, payload, trailVars>>


\* ------------------------------------------------------ websocket_position
\* The client opens a connection to /ws.
Connect(s) ==
    /\ pc[s] = "idle"
    /\ pc' = [pc EXCEPT ![s] = "accept"]
    /\ conn' = [conn EXCEPT ![s] = "open"]
    /\ UNCHANGED <<clock, cache, lastWrite, now_l, resp, lines, ret, work, pushed, payload, trailVars>>

\* The client goes away, or the transport breaks; from then on every send
\* on this connection raises.
Disconnect(s) ==
    /\ pc[s] \notin {"idle", "done", "aborted"}
    /\ conn[s] = "open"
    /\ conn' = [conn EXCEPT ![s] = "closed"]
    /\ UNCHANGED <<clock, cache, lastWrite, pc, now_l, resp, lines, ret, work, pushed, payload, trailVars>>

\* main.py:127: await websocket.accept(), outside the try; then the first
\* tick begins.
Accept(s) ==
    /\ pc[s] = "accept"
    /\ EventLoopFree(s)
    /\ pc' = [pc EXCEPT ![s] = IF conn[s] = "open" THEN "fetch" ELSE "aborted"]
    /\ UNCHANGED <<clock, cache, lastWrite, conn, now_l, resp, lines, ret, work, pushed, payload, trailVars>>

\* main.py:136-138: the inner except turns a failure of the tick's work
\* into an error payload.
OnTickFailureEndsSession == "done"
OnTickFailure == "send_err"

\* main.py:133-134: fetch_tle has returned or raised; get_full_state
\* (propagator.py:222-260) returns the state or raises (SGP4 error code,
\* unparsable element lines).  fetch_tle's locals are gone.
Compute(s) ==
    /\ pc[s] = "fetched"
    /\ EventLoopFree(s)
    /\ \E ok \in BOOLEAN :
         /\ work' = [work EXCEPT ![s] = IF ret[s].via = "raise" THEN "fetch_failed"
                                        ELSE IF ok THEN "ok" ELSE "compute_failed"]
         /\ pc' = [pc EXCEPT ![s] = IF ret[s].via # "raise" /\ ok THEN "send_state"
                                    ELSE OnTickFailure]
    /\ now_l' = [now_l EXCEPT ![s] = 0]
    /\ resp' = [resp EXCEPT ![s] = NoResp]
    /\ lines' = [lines EXCEPT ![s] = <<>>]
    /\ UNCHANGED <<clock, cache, lastWrite, conn, ret, pushed, payload, trailVars>>

\* main.py:135: await websocket.send_text(json.dumps(state))
SendState(s) ==
    /\ pc[s] = "send_state"
    /\ EventLoopFree(s)
    /\ IF conn[s] = "open"
       THEN /\ pushed' = [pushed EXCEPT ![s] = @ + 1]
            /\ payload' = [payload EXCEPT ![s] = "state"]
            /\ pc' = [pc EXCEPT ![s] = "sleep"]
       ELSE /\ pc' = [pc EXCEPT ![s] = OnTickFailure]
            /\ UNCHANGED <<pushed, payload>>
    /\ UNCHANGED <<clock, cache, lastWrite, conn, now_l, resp, lines, ret, work, trailVars>>

\* main.py:138: await websocket.send_text(json.dumps({"error": str(e)}));
\* a failure here leaves the loop through the outer except (main.py:144-147).
SendError(s) ==
    /\ pc[s] = "send_err"
    /\ EventLoopFree(s)
    /\ IF conn[s] = "open"
       THEN /\ pushed' = [pushed EXCEPT ![s] = @ + 1]
            /\ payload' = [payload EXCEPT ![s] = "error"]
            /\ pc' = [pc EXCEPT ![s] = "sleep"]
       ELSE /\ pc' = [pc EXCEPT ![s] = "done"]
            /\ UNCHANGED <<pushed, payload>>
    /\ UNCHANGED <<clock, cache, lastWrite, conn, now_l, resp, lines, ret, work, trailVars>>

\* main.py:142 and 131: await asyncio.sleep(2.0) returns and the next tick
\* begins.
Resume(s) ==
    /\ pc[s] = "sleep"
    /\ EventLoopFree(s)
    /\ pc' = [pc EXCEPT ![s] = "fetch"]
    /\ ret' = [ret EXCEPT ![s] = NoRet]
    /\ work' = [work EXCEPT ![s] = "none"]
    /\ pushed' = [pushed EXCEPT ![s] = 0]
    /\ payload' = [payload EXCEPT ![s] = "none"]
    /\ UNCHANGED <<clock, cache, lastWrite, conn, now_l, resp, lines, trailVars>>

\* Time passes, also while a call is blocked in httpx.get.
ClockSteps == {CACHE_TTL_SECONDS - 1, CACHE_TTL_SECONDS}

Advance ==
    /\ \E d \in ClockSteps :
         /\ clock + d <= MaxTtlPeriods * CACHE_TTL_SECONDS
         /\ clock' = clock + d
    /\ UNCHANGED <<cache, lastWrite, pc, conn, now_l, resp, lines, ret, work, pushed, payload, trailVars>>

StreamInit ==
    /\ clock = 0
    /\ cache = EmptyDict
    /\ lastWrite = EmptyDict
    /\ pc = [s \in Subs |-> "idle"]
    /\ conn = [s \in Subs |-> "closed"]
    /\ now_l = [s \in Subs |-> 0]
    /\ resp = [s \in Subs |-> NoResp]
    /\ lines = [s \in Subs |-> <<>>]
    /\ ret = [s \in Subs |-> NoRet]
    /\ work = [s \in Subs |-> "none"]
    /\ pushed = [s \in Subs |-> 0]
    /\ payload = [s \in Subs |-> "none"]

TrailIdle ==
    /\ tpc = "idle"
    /\ center_dt = 0
    /\ past_minutes = 0
    /\ future_minutes = 0
    /\ step_seconds = 1
    /\ t = 0
    /\ past_points = <<>>
    /\ future_points = <<>>
    /\ failed = {}

Init == StreamInit /\ TrailIdle

Next ==
    \/ \E s \in Subs : Connect(s)
    \/ \E s \in Subs : Disconnect(s)
    \/ \E s \in Subs : Accept(s)
    \/ \E s \in Subs : FetchEntry(s)
    \/ \E s \in Subs : NetGet(s)
    \/ \E s \in Subs : Validate(s)
    \/ \E s \in Subs : StoreTimestamp(s)
    \/ \E s \in Subs : StoreName(s)
    \/ \E s \in Subs : StoreLine1(s)
    \/ \E s \in Subs : StoreLine2(s)
    \/ \E s \in Subs : Except(s)
    \/ \E s \in Subs : Compute(s)
    \/ \E s \in Subs : SendState(s)
    \/ \E s \in Subs : SendError(s)
    \/ \E s \in Subs : Resume(s)
    \/ Advance

Spec == Init /\ [][Next]_vars

\* ------------------------------------------------------ compute_orbit_trail
\* Step sizes that divide the windows, that do not, and that exceed them.
StepChoices == {20, 45, 60, 240}

\* main.py:81-84: get_orbit's past_minutes, future_minutes, step_seconds
OrbitArgs == <<30, 30, 30>>

\* The smallest integer step, over a one-minute window on either side.
UnitStepArgs == {<<1, 0, 1>>, <<0, 1, 1>>}

TrailArgs ==
    {OrbitArgs} \cup UnitStepArgs \cup ((0..MaxMinutes) \X (0..MaxMinutes) \X StepChoices)

\* datetime.timedelta(minutes=m), in seconds
Minutes(m) == m * 60

\* propagator.py:283-290: the call, up to the first assignment of t
TrailCall ==
    /\ tpc = "idle"
    /\ \E c \in 0..MaxCenter, a \in TrailArgs :
         /\ center_dt' = c
         /\ past_minutes' = a[1]
         /\ future_minutes' = a[2]
         /\ step_seconds' = a[3]
         /\ t' = c - Minutes(a[1])
    /\ past_points' = <<>>
    /\ future_points' = <<>>
    /\ failed' = {}
    /\ tpc' = "past"
    /\ UNCHANGED streamVars

\* propagator.py:291: while t <= center_dt
PastCondExclusive(tt) == tt < center_dt
PastCond(tt) == tt <= center_dt

\* propagator.py:303: t = center_dt + timedelta(seconds=step_seconds)
FutureStartAtCenter == center_dt
FutureStart == center_dt + step_seconds

\* propagator.py:304: end_t
end_t == center_dt + Minutes(future_minutes)

\* propagator.py:305: while t <= end_t
FutureCond(tt) == tt <= end_t

\* propagator.py:298-299 and 312-313: except Exception: pass, the loop goes on
AfterSampleErrorAborts(loop) == "raised"
AfterSampleError(loop) == loop

\* propagator.py:300 and 314: t += timedelta(seconds=step_seconds), after the
\* try statement, so whether or not the sample raised
NextInstantOnlyOnSuccess(tt, ok) == IF ok THEN tt + step_seconds ELSE tt
NextInstant(tt, ok) == tt + step_seconds

\* propagator.py:291-300: one iteration of the past loop; propagate
\* (propagator.py:57-72) returns or raises.  A point is recorded by its
\* instant.
PastSample ==
    /\ tpc = "past"
    /\ PastCond(t)
    /\ \E ok \in BOOLEAN :
         /\ t' = NextInstant(t, ok)
         /\ IF ok
            THEN /\ past_points' = Append(past_points, t)
                 /\ tpc' = tpc
                 /\ UNCHANGED failed
            ELSE /\ Cardinality(failed) < MaxFailures
                 /\ failed' = failed \cup {<<"past", t>>}
                 /\ tpc' = AfterSampleError("past")
                 /\ UNCHANGED past_points
    /\ UNCHANGED <<center_dt, past_minutes, future_minutes, step_seconds, future_points, streamVars>>

\* propagator.py:291 false, then 303-304
PastExit ==
    /\ tpc = "past"
    /\ ~PastCond(t)
    /\ t' = FutureStart
    /\ tpc' = "future"
    /\ UNCHANGED <<center_dt, past_minutes, future_minutes, step_seconds, past_points,
                   future_points, failed, streamVars>>

\* propagator.py:305-314: one iteration of the future loop
FutureSample ==
    /\ tpc = "future"
    /\ FutureCond(t)
    /\ \E ok \in BOOLEAN :
         /\ t' = NextInstant(t, ok)
         /\ IF ok
            THEN /\ future_points' = Append(future_points, t)
                 /\ tpc' = tpc
                 /\ UNCHANGED failed
            ELSE /\ Cardinality(failed) < MaxFailures
                 /\ failed' = failed \cup {<<"future", t>>}
                 /\ tpc' = AfterSampleError("future")
                 /\ UNCHANGED future_points
    /\ UNCHANGED <<center_dt, past_minutes, future_minutes, step_seconds, past_points, streamVars>>

\* propagator.py:305 false, then 316: return
TrailReturn ==
    /\ tpc = "future"
    /\ ~FutureCond(t)
    /\ tpc' = "done"
    /\ UNCHANGED <<center_dt, past_minutes, future_minutes, step_seconds, t, past_points,
                   future_points, failed, streamVars>>

TrailNext ==
    \/ TrailCall
    \/ PastSample
    \/ PastExit
    \/ FutureSample
    \/ TrailReturn

SpecTrail == Init /\ [][TrailNext]_vars

\* compute_orbit_trail is straight-line sequential code: once called it keeps
\* running.
SpecTrailFair == SpecTrail /\ WF_vars(TrailNext)

\* ================================================================== claims
\* The element sets the provider's well-formed responses carry.
TripleA == <<NameA, Line1A, Line2A>>
TripleB == <<NameB, Line1B, Line2B>>
ProviderTriples == {TripleA, TripleB}

\* Subscriber s's fetch_tle call returns or raises in this step.
FetchReturns(s) == pc[s] # "fetched" /\ pc'[s] = "fetched"

\* The response the call got is a network failure: no response at all, or a
\* status outside 2xx.
GotNetworkFailure(r) == r.kind = "timeout" \/ (r.kind = "http" /\ r.status \notin 200..299)

\* The response the call got arrived with a 2xx status and is malformed.
GotMalformed(r) ==
    /\ r.kind = "http"
    /\ r.status \in 200..299
    /\ LET ls == NonBlankLines(r.text) IN
         \/ Len(ls) < 3
         \/ SubSeq(ls[2], 1, 2) # <<"1", " ">>
         \/ SubSeq(ls[3], 1, 2) # <<"2", " ">>

\* C1: a fetch made while a cache entry exists and is younger than 3600 s
\* returns exactly the cached (name, line1, line2), makes no network
\* retrieval and leaves the entry and its fetch instant unchanged.
C1_FreshCacheHit ==
    [][\A s \in Subs :
         (pc[s] = "fetch" /\ pc'[s] # "fetch" /\ DOMAIN cache # {}
            /\ clock - cache["timestamp"] < 3600)
         => /\ pc'[s] = "fetched"
            /\ ret'[s].via # "raise"
            /\ ret'[s].val = <<cache["name"], cache["line1"], cache["line2"]>>
            /\ resp'[s] = NoResp
            /\ cache' = cache]_vars

\* C1 witness: a call made at the very instant of the last successful
\* refresh has returned that refresh's element set from the cache.
C1_Witness ==
    \E s \in Subs :
        /\ pc[s] = "fetched"
        /\ ret[s].via = "hit"
        /\ resp[s] = NoResp
        /\ DOMAIN lastWrite = Keys
        /\ now_l[s] = lastWrite["timestamp"]
        /\ ret[s].val = <<lastWrite["name"], lastWrite["line1"], lastWrite["line2"]>>

\* C2: when the network retrieval fails, the call returns the cached element
\* set, however stale, if a cache entry exists, and raises if none exists.
C2_NetworkFailureFallback ==
    [][\A s \in Subs :
         (FetchReturns(s) /\ GotNetworkFailure(resp'[s]))
         => /\ (DOMAIN cache # {} =>
                   /\ ret'[s].via = "stale"
                   /\ ret'[s].val = <<cache["name"], cache["line1"], cache["line2"]>>)
            /\ (DOMAIN cache = {} => ret'[s].via = "raise")]_vars

\* C2 witness: a timed-out retrieval has been answered from an entry that
\* is at least two TTLs old.
C2_Witness ==
    \E s \in Subs :
        /\ pc[s] = "fetched"
        /\ resp[s] = Timeout
        /\ ret[s].via = "stale"
        /\ ret[s].val \in ProviderTriples
        /\ now_l[s] - cache["timestamp"] >= 2 * 3600

\* C3 as stated: a response that fails validation always surfaces an error
\* to the caller, whether or not a cache entry exists.
C3_FormatErrorAlwaysSurfaces ==
    [][\A s \in Subs :
         (FetchReturns(s) /\ GotMalformed(resp'[s])) => ret'[s].via = "raise"]_vars

\* C3 as amended: a response that fails validation surfaces an error only
\* when no cache entry exists; when a (stale) entry exists the call returns
\* that entry's element set and does not raise.
C3_FormatErrorFallsBackToCache ==
    [][\A s \in Subs :
         (FetchReturns(s) /\ GotMalformed(resp'[s]))
         => /\ (DOMAIN cache = {} => ret'[s].via = "raise")
            /\ (DOMAIN cache # {} =>
                   /\ ret'[s].via = "stale"
                   /\ ret'[s].val = <<cache["name"], cache["line1"], cache["line2"]>>)]_vars

\* C3 witness: a malformed 2xx response has been answered from the stale
\* cache entry.
C3_Witness ==
    \E s \in Subs :
        /\ pc[s] = "fetched"
        /\ GotMalformed(resp[s])
        /\ ret[s].via = "stale"
        /\ ret[s].val = <<cache["name"], cache["line1"], cache["line2"]>>

\* C4: every completed tick of the streaming loop has pushed exactly one
\* payload, the state when fetch and compute both succeeded and an error
\* payload otherwise; a failed fetch or compute leads to the error push and
\* the sleep, after which the next tick starts; the loop ends only from a
\* send on a closed transport.
C4_TickPushesOnePayload ==
    /\ [](\A s \in Subs :
            pc[s] = "sleep"
            => /\ pushed[s] = 1
               /\ work[s] \in {"ok", "fetch_failed", "compute_failed"}
               /\ (work[s] = "ok" <=> payload[s] = "state")
               /\ (work[s] # "ok" <=> payload[s] = "error"))
    /\ [][\A s \in Subs :
            /\ (pc[s] = "fetched" /\ pc'[s] # "fetched")
                 => pc'[s] = IF work'[s] = "ok" THEN "send_state" ELSE "send_err"
            /\ (pc[s] = "sleep" /\ pc'[s] # "sleep") => pc'[s] = "fetch"
            /\ (pc[s] # "done" /\ pc'[s] = "done")
                 => pc[s] \in {"send_state", "send_err"} /\ conn[s] = "closed"]_vars

\* C4 witness: a tick whose compute failed has pushed one error payload and
\* reached the sleep with the connection still open.
C4_Witness ==
    \E s \in Subs :
        /\ pc[s] = "sleep"
        /\ work[s] = "compute_failed"
        /\ payload[s] = "error"
        /\ pushed[s] = 1
        /\ conn[s] = "open"

\* C8 as stated: while one subscriber is blocked in the network retrieval,
\* any other subscriber whose sleep is over can start its own tick.
C8_BlockedFetchDoesNotStallOthers ==
    \A s, o \in Subs :
        (s # o /\ pc[s] = "net" /\ pc[o] = "sleep") => ENABLED Resume(o)

\* One of subscriber s's four stores (tle_fetcher.py:63-66) is taken.
StoresIn(s) ==
    /\ pc[s] \in {"w_timestamp", "w_name", "w_line1", "w_line2"}
    /\ pc'[s] # pc[s]

\* C9: the cache slot changes only in the stores of a call whose response
\* arrived with a 2xx status and passed validation; when such a call returns
\* the slot holds exactly its (name, line1, line2) and its own now; a call
\* that hits the fresh cache or falls into the failure path leaves the slot
\* unchanged, so after a failed refresh the entry is still expired and a
\* call that finds an expired entry goes to the network.
C9_CacheWrittenOnlyBySuccessfulFetch ==
    [][/\ cache' # cache
          => \E s \in Subs :
                /\ StoresIn(s)
                /\ resp[s].kind = "http" /\ resp[s].status \in 200..299
                /\ ~GotMalformed(resp[s])
       /\ \A s \in Subs :
            /\ (pc[s] = "w_line2" /\ FetchReturns(s))
                 => /\ DOMAIN cache' = Keys
                    /\ cache'["timestamp"] = now_l[s]
                    /\ <<cache'["name"], cache'["line1"], cache'["line2"]>>
                         = SubSeq(NonBlankLines(resp[s].text), 1, 3)
                    /\ ret'[s].val = SubSeq(NonBlankLines(resp[s].text), 1, 3)
            /\ (pc[s] \in {"fetch", "except"} /\ pc'[s] # pc[s]) => cache' = cache
            /\ (pc[s] = "except" /\ FetchReturns(s) /\ DOMAIN cache # {})
                 => clock' - cache'["timestamp"] >= 3600
            /\ (pc[s] = "fetch" /\ pc'[s] # "fetch" /\ DOMAIN cache # {}
                   /\ clock - cache["timestamp"] >= 3600)
                 => pc'[s] = "net" /\ cache' = cache]_vars

\* C9 witness: a refresh has replaced an expired entry by the same element
\* set with a new fetch instant, while the other subscriber still holds
\* that element set from the earlier entry.
C9_Witness ==
    \E s, o \in Subs :
        /\ s # o
        /\ pc[s] = "fetched" /\ ret[s].via = "fresh"
        /\ pc[o] \in {"send_state", "send_err", "sleep"}
        /\ ret[o].via \in {"fresh", "hit"} /\ ret[o].val = ret[s].val
        /\ cache["timestamp"] = now_l[s] /\ now_l[s] >= 3600
        /\ <<cache["name"], cache["line1"], cache["line2"]>> = ret[s].val

\* An entry is whole when it has all four keys and its three lines are one
\* provider element set.
WholeOrEmpty(d) ==
    \/ DOMAIN d = {}
    \/ /\ DOMAIN d = Keys
       /\ <<d["name"], d["line1"], d["line2"]>> \in ProviderTriples

Range(q) == {q[i] : i \in 1..Len(q)}

Increasing(q) == \A i \in 1..(Len(q) - 1) : q[i] < q[i + 1]

\* The instants the past loop visited, and those the future loop visited.
PastSampled == Range(past_points) \cup {f[2] : f \in {g \in failed : g[1] = "past"}}
FutureSampled == Range(future_points) \cup {f[2] : f \in {g \in failed : g[1] = "future"}}

C6_Windows ==
    /\ center_dt - past_minutes * 60 \in PastSampled
    /\ \A x \in PastSampled : center_dt - past_minutes * 60 <= x /\ x <= center_dt
    /\ \A x \in FutureSampled : x > center_dt /\ x <= center_dt + future_minutes * 60
    /\ center_dt \notin FutureSampled

\* C6 as stated: for every center, windows >= 0 and step > 0 the center
\* instant is one of the past sample instants (and the windows are as above).
C6_CenterAlwaysSampled ==
    tpc = "done" => C6_Windows /\ center_dt \in PastSampled

\* C6 as amended: the past arc samples center - past window + k*step for
\* every k >= 0 that keeps the instant at or before the center, so the
\* center instant is a past sample instant exactly when the step divides
\* the past window (and the windows are as above).
C6_CenterSampledIffStepDivides ==
    tpc = "done"
    => /\ C6_Windows
       /\ PastSampled = {center_dt - past_minutes * 60 + k * step_seconds :
                           k \in 0..((past_minutes * 60) \div step_seconds)}
       /\ (center_dt \in PastSampled <=> (past_minutes * 60) % step_seconds = 0)

\* C6 witness: a trail whose step does not divide its past window has
\* returned, with samples in both arcs.
C6_Witness ==
    /\ tpc = "done"
    /\ (past_minutes * 60) % step_seconds # 0
    /\ Cardinality(PastSampled) >= 2
    /\ FutureSampled # {}
    /\ center_dt \notin PastSampled

\* C7: a failed sample never aborts the trail: the call returns, each arc
\* holds exactly the instants of its window that propagated, once each and
\* in increasing time order, so its length is the number of them.
C7_FailedSamplesAreDropped ==
    /\ tpc # "raised"
    /\ Increasing(past_points) /\ Increasing(future_points)
    /\ \A f \in failed : f[2] \notin Range(past_points) \cup Range(future_points)
    /\ tpc = "done"
         => LET pastAll == {center_dt - past_minutes * 60 + k * step_seconds :
                             k \in 0..((past_minutes * 60) \div step_seconds)}
                futureAll == {center_dt + k * step_seconds :
                               k \in 1..((future_minutes * 60) \div step_seconds)}
                bad == {f[2] : f \in failed}
            IN /\ Range(past_points) = pastAll \ bad
               /\ Range(future_points) = futureAll \ bad
               /\ Len(past_points) = Cardinality(pastAll \ bad)
               /\ Len(future_points) = Cardinality(futureAll \ bad)

\* C7 witness: a trail has returned although a sample in the middle of its
\* past arc failed; the arc has points before and after the failed instant.
C7_Witness ==
    /\ tpc = "done"
    /\ \E f \in failed :
         /\ f[1] = "past"
         /\ \E i, j \in 1..Len(past_points) : past_points[i] < f[2] /\ f[2] < past_points[j]
    /\ future_points # <<>>

\* C11: compute_orbit_trail returns for every center, windows >= 0 and
\* integer step >= 1, whatever samples fail: every iteration of either loop,
\* failed or not, moves the sample instant forward by step_seconds; the
\* instant never passes its loop's end by more than one step; a call that
\* has not returned can always take a step; and every call returns.
C11_TrailTerminates ==
    /\ [][(tpc \in {"past", "future"} /\ tpc' = tpc)
            => /\ t' = t + step_seconds
               /\ t' > t
               /\ Len(past_points') + Len(future_points') + Cardinality(failed')
                    = Len(past_points) + Len(future_points) + Cardinality(failed) + 1]_vars
    /\ [](tpc = "past" => t <= center_dt + step_seconds)
    /\ [](tpc = "future" => t <= center_dt + future_minutes * 60 + step_seconds)
    /\ [](tpc \in {"past", "future"} => step_seconds >= 1 /\ ENABLED TrailNext)
    /\ ((tpc = "past") ~> (tpc = "done"))

\* C11 witness: a call with the smallest step has returned although one of
\* its samples failed.
C11_Witness ==
    /\ tpc = "done"
    /\ step_seconds = 1
    /\ failed # {}
    /\ Len(past_points) + Len(future_points) + Cardinality(failed) >= 60

====
